---------------------------- MODULE Spec2Model ----------------------------
(***************************************************************************)
(* A model of the NCM container reader (src/src/ncmdump.rs).               *)
(*                                                                         *)
(* The reader S is a seekable byte source with the semantics of            *)
(* std::io::Cursor<Vec<u8>> (and of std::fs::File): a read returns the     *)
(* bytes that remain, up to the buffer's size, and a seek beyond the end   *)
(* of the source succeeds.  Bytes are the integers 0..255; offsets are     *)
(* 0-based as in the code, sequences are 1-based as in TLA+.               *)
(***************************************************************************)
EXTENDS Integers, Sequences, FiniteSets, TLC

VARIABLES
    source,   \* the bytes behind the reader
    endian,   \* byte order of the build: "little" or "big"
    pos,      \* the reader's stream position
    state,    \* "init" | "open" | "failed" | "panicked"
    err,      \* the error from_reader returned ("" when none)
    key,      \* self.key   = <<start, length>>
    info,     \* self.info  = <<start, length>>
    image,    \* self.image = <<start, length>>
    op,       \* the last extraction call: "none" | "key" | "info" | "image" | "data"
    res,      \* what that call returned
    hist,     \* history of the handle's calls (kept by SpecCalls only)
    cipher    \* the keystream cipher on its own (used by SpecCipher only)

readerVars == <<source, endian, pos, state, err, key, info, image, op, res>>

vars == <<source, endian, pos, state, err, key, info, image, op, res, hist, cipher>>

-----------------------------------------------------------------------------
(* Bytes and sequences                                                     *)

Byte == 0..255

Min(a, b) == IF a < b THEN a ELSE b

\* the sequence f, a function on 1..n, held as a tuple
Tuple(f) == SubSeq(f, 1, Len(f))

Reverse(s) == [i \in 1..Len(s) |-> s[Len(s) + 1 - i]]

\* s[n..] of Rust for n <= s.len()
DropFirst(s, n) == SubSeq(s, n + 1, Len(s))

Repeat(b, n) == [i \in 1..n |-> b]

RECURSIVE XorBits(_, _, _)
XorBits(a, b, n) ==
    IF n = 0 THEN 0
    ELSE ((a + b) % 2) + 2 * XorBits(a \div 2, b \div 2, n - 1)

\* the table of a ^ b on u8
XorTable == [a \in Byte |-> [b \in Byte |-> XorBits(a, b, 8)]]

Xor(a, b) == XorTable[a][b]

XorAll(s, c) == [i \in 1..Len(s) |-> Xor(s[i], c)]

-----------------------------------------------------------------------------
(* The reader: Read + Seek                                                 *)

\* reader.read(&mut buf) with buf.len() = n at position p: the bytes read
ReadAt(src, p, n) == SubSeq(src, p + 1, Min(p + n, Len(src)))

\* reader.read_to_end(..) at position p: the bytes read
ReadToEnd(src, p) == SubSeq(src, p + 1, Len(src))

-----------------------------------------------------------------------------
(* from_reader                                                             *)

HeaderSize == 10

LengthSize == 4

GapSize == 9

\* 0x4d41_4446_4e45_5443, most significant byte first
Magic == <<77, 65, 68, 70, 78, 69, 84, 67>>

\* u64::from_ne_bytes / u32::from_ne_bytes: the base-256 digits of the value,
\* most significant first
FromNeBytes(bytes, e) == IF e = "little" THEN Reverse(bytes) ELSE bytes

RECURSIVE DigitsValue(_)
DigitsValue(d) ==
    IF Len(d) = 0 THEN 0
    ELSE DigitsValue(SubSeq(d, 1, Len(d) - 1)) * 256 + d[Len(d)]

\* the magic compared on its low 32 bits only
check_format_mut(buffer, e) ==
    LET buf  == SubSeq(buffer, 1, 8)
        temp == FromNeBytes(buf, e)
    IN  IF SubSeq(temp, 5, 8) # SubSeq(Magic, 5, 8) THEN FALSE ELSE TRUE

check_format(buffer, e) ==
    LET buf  == SubSeq(buffer, 1, 8)
        temp == FromNeBytes(buf, e)
    IN  IF temp # Magic THEN FALSE ELSE TRUE

get_length(buffer, e) == DigitsValue(FromNeBytes(buffer, e))

NoSection == <<0, 0>>

Failure(kind, p) ==
    [err |-> kind, pos |-> p, key |-> NoSection, info |-> NoSection,
     image |-> NoSection]

\* the error of a short header or a wrong magic
HeaderError == "InvalidFileType"

\* the errors of the three length fields
KeyLengthError == "InvalidKeyLength"

\* the key field's error reported for the metadata field too
InfoLengthError_mut == "InvalidKeyLength"

InfoLengthError == "InvalidInfoLength"

ImageLengthError == "InvalidImageLength"

\* reader.seek(SeekFrom::Current(n)) at position p
SeekCurrent(p, n) == p + n

\* a gap of 8 bytes skipped
SkipGap_mut(p) == SeekCurrent(p, GapSize - 1)

\* reader.seek(SeekFrom::Current(9))
SkipGap(p) == SeekCurrent(p, GapSize)

from_reader(src, e) ==
    LET head       == ReadAt(src, 0, HeaderSize)
        size       == Len(head)
        format     == head \o Repeat(0, HeaderSize - size)
        p1         == size
        key_buf    == ReadAt(src, p1, LengthSize)
        key_start  == p1 + Len(key_buf)
        key_length == get_length(key_buf, e)
        p2         == SeekCurrent(key_start, key_length)
        info_buf   == ReadAt(src, p2, LengthSize)
        info_start == p2 + Len(info_buf)
        info_length == get_length(info_buf, e)
        p3         == SkipGap(SeekCurrent(info_start, info_length))
        image_buf  == ReadAt(src, p3, LengthSize)
        image_start == p3 + Len(image_buf)
        image_length == get_length(image_buf, e)
    IN  IF size # HeaderSize \/ ~check_format(format, e)
          THEN Failure(HeaderError, p1)
        ELSE IF Len(key_buf) # LengthSize
          THEN Failure(KeyLengthError, key_start)
        ELSE IF Len(info_buf) # LengthSize
          THEN Failure(InfoLengthError, info_start)
        ELSE IF Len(image_buf) # LengthSize
          THEN Failure(ImageLengthError, image_start)
        ELSE [err |-> "", pos |-> image_start,
              key |-> <<key_start, key_length>>,
              info |-> <<info_start, info_length>>,
              image |-> <<image_start, image_length>>]

-----------------------------------------------------------------------------
(* crate::decrypt: the block-cipher primitive and the key schedule.  Their *)
(* code is not part of src/; they are modelled from the specification.     *)

BlockSize == 16

\* "a fixed, embedded 16-byte key (the header key)"
HEADER_KEY == <<104, 122, 72, 82, 65, 109, 115, 111, 53, 107, 73, 110, 98, 97, 120, 87>>

\* "a second fixed, embedded 16-byte key (the info key)"
INFO_KEY == <<35, 49, 52, 108, 106, 107, 95, 33, 92, 93, 38, 48, 85, 60, 39, 40>>

\* "surfaced as a decryption error"
DecryptError == "DecryptError"

\* One block of the primitive, in ECB mode: every block is transformed alone
\* and with the same key.  The transformation stands for the block cipher: a
\* keyed bijection on blocks.
DecryptBlocks(data, k) ==
    [i \in 1..Len(data) |-> Xor(data[i], k[((i - 1) % BlockSize) + 1])]

\* The padding of the last block: n bytes of value n, 1 <= n <= BlockSize.
PaddingOk(plain) ==
    LET n == plain[Len(plain)]
    IN  /\ n \in 1..BlockSize
        /\ \A i \in (Len(plain) - n + 1)..Len(plain) : plain[i] = n

\* decrypt(data, key): fails when the primitive rejects the ciphertext (block
\* alignment, padding), else the plaintext without its padding.
decrypt(data, k) ==
    IF Len(data) = 0 \/ Len(data) % BlockSize # 0
      THEN [ok |-> FALSE, err |-> DecryptError, val |-> <<>>]
    ELSE LET plain == DecryptBlocks(data, k)
         IN  IF ~PaddingOk(plain)
               THEN [ok |-> FALSE, err |-> DecryptError, val |-> <<>>]
             ELSE [ok |-> TRUE, err |-> "",
                   val |-> SubSeq(plain, 1, Len(plain) - plain[Len(plain)])]

\* The key box is the sequence of its 256 entries: entry i is At(box, i).
At(box, i) == box[i + 1]

IdentityBox == Tuple([i \in 1..256 |-> i - 1])

\* One step of the key schedule at index i: st = <<table, j>>.
KeyStep(st, i, raw_key) ==
    LET table == st[1]
        j2    == (st[2] + At(table, i) + raw_key[(i % Len(raw_key)) + 1]) % 256
    IN  <<[table EXCEPT ![i + 1] = At(table, j2), ![j2 + 1] = At(table, i)], j2>>

\* The n steps at indices i, i + 1, .., i + n - 1, in that order.
RECURSIVE KeySteps(_, _, _, _)
KeySteps(st, i, n, raw_key) ==
    IF n = 1 THEN KeyStep(st, i, raw_key)
    ELSE LET h    == n \div 2
             left == KeySteps(st, i, h, raw_key)
         IN  \* the accumulator is a byte: the first h steps are finished
             \* before the others start
             IF left[2] \in Byte THEN KeySteps(left, i + h, n - h, raw_key)
             ELSE left

\* build_key_box(raw_key), raw_key non-empty
build_key_box(raw_key) == KeySteps(<<IdentityBox, 0>>, 0, 256, raw_key)[1]

-----------------------------------------------------------------------------
(* External decoders: base64 (STANDARD engine), UTF-8, the metadata record *)

B64Pad == 61

B64Val(c) ==
    IF c \in 65..90 THEN c - 65
    ELSE IF c \in 97..122 THEN c - 97 + 26
    ELSE IF c \in 48..57 THEN c - 48 + 52
    ELSE IF c = 43 THEN 62
    ELSE IF c = 47 THEN 63
    ELSE -1

\* STANDARD.decode: the alphabet A-Za-z0-9+/, canonical padding required, the
\* unused trailing bits zero.
B64Decode(s) ==
    LET n    == Len(s)
        pad  == IF n >= 2 /\ s[n] = B64Pad
                  THEN (IF s[n - 1] = B64Pad THEN 2 ELSE 1)
                ELSE 0
        v(i) == IF i > n - pad THEN 0 ELSE B64Val(s[i])
        out(k) == LET g == 4 * ((k - 1) \div 3)
                      r == (k - 1) % 3
                  IN  IF r = 0 THEN v(g + 1) * 4 + (v(g + 2) \div 16)
                      ELSE IF r = 1 THEN (v(g + 2) % 16) * 16 + (v(g + 3) \div 4)
                      ELSE (v(g + 3) % 4) * 64 + v(g + 4)
    IN  IF n = 0 THEN [ok |-> TRUE, val |-> <<>>]
        ELSE IF \/ n % 4 # 0
                \/ \E i \in 1..(n - pad) : B64Val(s[i]) < 0
                \/ pad = 1 /\ B64Val(s[n - 1]) % 4 # 0
                \/ pad = 2 /\ B64Val(s[n - 2]) % 16 # 0
          THEN [ok |-> FALSE, val |-> <<>>]
        ELSE [ok |-> TRUE, val |-> [k \in 1..(3 * (n \div 4) - pad) |-> out(k)]]

IsCont(b) == b \in 128..191

\* the length of the well-formed UTF-8 sequence that starts at index i of s,
\* 0 when none does
Utf8Width(s, i) ==
    LET n == Len(s)
        b == s[i]
        c(k) == i + k <= n /\ IsCont(s[i + k])
        second(lo, hi) == i + 1 <= n /\ s[i + 1] \in lo..hi
    IN  IF b <= 127 THEN 1
        ELSE IF b \in 194..223 THEN (IF c(1) THEN 2 ELSE 0)
        ELSE IF b = 224 THEN (IF second(160, 191) /\ c(2) THEN 3 ELSE 0)
        ELSE IF b = 237 THEN (IF second(128, 159) /\ c(2) THEN 3 ELSE 0)
        ELSE IF b \in 225..239 THEN (IF c(1) /\ c(2) THEN 3 ELSE 0)
        ELSE IF b = 240 THEN (IF second(144, 191) /\ c(2) /\ c(3) THEN 4 ELSE 0)
        ELSE IF b \in 241..243 THEN (IF c(1) /\ c(2) /\ c(3) THEN 4 ELSE 0)
        ELSE IF b = 244 THEN (IF second(128, 143) /\ c(2) /\ c(3) THEN 4 ELSE 0)
        ELSE 0

\* String::from_utf8 accepts s: every byte that is no continuation byte starts
\* a well-formed sequence, and every continuation byte lies in one
IsUtf8(s) ==
    \A i \in 1..Len(s) :
        IF IsCont(s[i])
          THEN \E k \in 1..3 :
                  /\ i - k >= 1
                  /\ ~IsCont(s[i - k])
                  /\ Utf8Width(s, i - k) > k
        ELSE Utf8Width(s, i) > 0

\* serde_json::from_str::<NcmInfo>: the JSON text t is one value, an object
\* or an array, with white space allowed around every token and nothing but
\* white space after it.  Positions are 1-based indices of t; the position 0
\* stands for a text that is rejected.  An absent optional field (None) is -1.
Quote == 34

Backslash == 92

NoInfo ==
    [name |-> <<>>, id |-> 0, album |-> <<>>, artist |-> <<>>, bitrate |-> 0,
     duration |-> 0, format |-> <<>>, mv_id |-> -1, alias |-> -1]

\* the byte c stands at index i of t
Has(t, i, c) == i >= 1 /\ i <= Len(t) /\ t[i] = c

IsWs(b) == b \in {32, 9, 10, 13}

IsDigit(b) == b \in 48..57

HasDigit(t, i) == i >= 1 /\ i <= Len(t) /\ IsDigit(t[i])

IsHex(b) == b \in 48..57 \/ b \in 65..70 \/ b \in 97..102

HexVal(b) == IF b \in 48..57 THEN b - 48 ELSE IF b \in 65..70 THEN b - 55 ELSE b - 87

\* the index after lit when t holds lit at index i, else 0
Lit(t, i, lit) ==
    IF i > 0 /\ i + Len(lit) - 1 <= Len(t) /\ SubSeq(t, i, i + Len(lit) - 1) = lit
      THEN i + Len(lit)
    ELSE 0

\* the first index from i on that holds no white space (Len(t) + 1 when none)
SkipWs(t, i) ==
    IF i < 1 \/ i > Len(t) + 1 THEN 0
    ELSE CHOOSE j \in i..(Len(t) + 1) :
            /\ j = Len(t) + 1 \/ ~IsWs(t[j])
            /\ \A k \in i..(j - 1) : IsWs(t[k])

\* the first index from i on that holds no digit
DigitsEnd(t, i) ==
    CHOOSE j \in i..(Len(t) + 1) :
        /\ j = Len(t) + 1 \/ ~IsDigit(t[j])
        /\ \A k \in i..(j - 1) : IsDigit(t[k])

\* Strings.  The content of a string starts at index i, after the opening
\* quote.  The number of backslashes that stand directly before index k:
BackslashRun(t, i, k) ==
    LET stop == CHOOSE j \in (i - 1)..(k - 1) :
                    /\ j = i - 1 \/ t[j] # Backslash
                    /\ \A m \in (j + 1)..(k - 1) : t[m] = Backslash
    IN  k - 1 - stop

\* a backslash that starts an escape, and the byte an escape names
IsStarter(t, i, k) == t[k] = Backslash /\ BackslashRun(t, i, k) % 2 = 0

IsTarget(t, i, k) == k > i /\ IsStarter(t, i, k - 1)

\* the u of a \uXXXX escape, and the hex digits behind one
IsUEsc(t, i, k) == t[k] = 117 /\ IsTarget(t, i, k)

IsHexOf(t, i, k) == \E d \in 1..4 : k - d > i /\ IsUEsc(t, i, k - d)

\* the index of the quote that closes the string, else 0
StrClose(t, i) ==
    LET c == CHOOSE j \in i..(Len(t) + 1) :
                 /\ j = Len(t) + 1 \/ (t[j] = Quote /\ BackslashRun(t, i, j) % 2 = 0)
                 /\ \A k \in i..(j - 1) :
                       ~(t[k] = Quote /\ BackslashRun(t, i, k) % 2 = 0)
    IN  IF c = Len(t) + 1 THEN 0 ELSE c

\* the value of the four hex digits behind the u at index k
Hex4(t, k) ==
    HexVal(t[k + 1]) * 4096 + HexVal(t[k + 2]) * 256 + HexVal(t[k + 3]) * 16
      + HexVal(t[k + 4])

IsHigh(cp) == cp \in 55296..56319

IsLow(cp) == cp \in 56320..57343

\* the \uXXXX escape whose u stands at index k, inside the content i..(c - 1)
HasUEsc(t, i, c, k) ==
    /\ k > i
    /\ k + 4 <= c - 1
    /\ IsUEsc(t, i, k)
    /\ \A d \in 1..4 : IsHex(t[k + d])

\* The content i..(c - 1) is well formed: no raw control character, every
\* escape one of \" \\ \/ \b \f \n \r \t \uXXXX.  Where the string is
\* decoded (strict), a \uXXXX that names a surrogate is one half of a pair.
StrOk(t, i, c, strict) ==
    \A k \in i..(c - 1) :
        /\ t[k] >= 32
        /\ IsStarter(t, i, k) =>
              /\ k + 1 <= c - 1
              /\ t[k + 1] \in {34, 92, 47, 98, 102, 110, 114, 116, 117}
        /\ IsUEsc(t, i, k) =>
              /\ HasUEsc(t, i, c, k)
              /\ (strict /\ IsHigh(Hex4(t, k))) =>
                    /\ HasUEsc(t, i, c, k + 6)
                    /\ IsLow(Hex4(t, k + 6))
              /\ (strict /\ IsLow(Hex4(t, k))) =>
                    /\ HasUEsc(t, i, c, k - 6)
                    /\ IsHigh(Hex4(t, k - 6))

\* char::encode_utf8
Utf8Enc(cp) ==
    IF cp < 128 THEN <<cp>>
    ELSE IF cp < 2048 THEN <<192 + (cp \div 64), 128 + (cp % 64)>>
    ELSE IF cp < 65536
      THEN <<224 + (cp \div 4096), 128 + ((cp \div 64) % 64), 128 + (cp % 64)>>
    ELSE <<240 + (cp \div 262144), 128 + ((cp \div 4096) % 64),
           128 + ((cp \div 64) % 64), 128 + (cp % 64)>>

EscByte(b) ==
    IF b = 98 THEN 8
    ELSE IF b = 102 THEN 12
    ELSE IF b = 110 THEN 10
    ELSE IF b = 114 THEN 13
    ELSE IF b = 116 THEN 9
    ELSE b

\* the bytes that index k of a well-formed content gives the decoded string
Piece(t, i, k) ==
    IF IsStarter(t, i, k) THEN <<>>
    ELSE IF IsUEsc(t, i, k)
      THEN LET cp == Hex4(t, k)
           IN  IF IsLow(cp) THEN <<>>
               ELSE IF IsHigh(cp)
                 THEN Utf8Enc(65536 + (cp - 55296) * 1024 + (Hex4(t, k + 6) - 56320))
               ELSE Utf8Enc(cp)
    ELSE IF IsTarget(t, i, k) THEN <<EscByte(t[k])>>
    ELSE IF IsHexOf(t, i, k) THEN <<>>
    ELSE <<t[k]>>

RECURSIVE Pieces(_, _, _, _)
Pieces(t, i, lo, hi) ==
    IF lo > hi THEN <<>>
    ELSE IF lo = hi THEN Piece(t, i, lo)
    ELSE LET mid == (lo + hi) \div 2
         IN  Pieces(t, i, lo, mid) \o Pieces(t, i, mid + 1, hi)

\* the decoded string of the content i..(c - 1)
Unescape(t, i, c) ==
    IF \A k \in i..(c - 1) : t[k] # Backslash THEN SubSeq(t, i, c - 1)
    ELSE Pieces(t, i, i, c - 1)

\* Numbers.  The index after the integer part that starts at i, else 0: a 0
\* alone, or digits that start with no 0.
IntEnd(t, i) ==
    IF ~HasDigit(t, i) THEN 0
    ELSE IF t[i] = 48 THEN (IF HasDigit(t, i + 1) THEN 0 ELSE i + 1)
    ELSE DigitsEnd(t, i)

\* the index after the number that starts at i, else 0
NumberEnd(t, i) ==
    LET a == IntEnd(t, IF Has(t, i, 45) THEN i + 1 ELSE i)
        b == IF a # 0 /\ Has(t, a, 46)
               THEN (IF HasDigit(t, a + 1) THEN DigitsEnd(t, a + 1) ELSE 0)
             ELSE a
        s == IF Has(t, b + 1, 43) \/ Has(t, b + 1, 45) THEN b + 2 ELSE b + 1
    IN  IF b # 0 /\ (Has(t, b, 101) \/ Has(t, b, 69))
          THEN (IF HasDigit(t, s) THEN DigitsEnd(t, s) ELSE 0)
        ELSE b

\* d <= m for two digit sequences without leading zeros
DigitsLeq(d, m) ==
    \/ Len(d) < Len(m)
    \/ /\ Len(d) = Len(m)
       /\ \/ d = m
          \/ \E k \in 1..Len(d) : d[k] < m[k] /\ SubSeq(d, 1, k - 1) = SubSeq(m, 1, k - 1)

\* u64::MAX = 18446744073709551615
U64Max == <<49, 56, 52, 52, 54, 55, 52, 52, 48, 55, 51, 55, 48, 57, 53, 53, 49, 54, 49, 53>>

\* the largest integer the checker computes with, 2147483647
IntMax == <<50, 49, 52, 55, 52, 56, 51, 54, 52, 55>>

RECURSIVE Decimal(_)
Decimal(d) ==
    IF Len(d) = 0 THEN 0
    ELSE Decimal(SubSeq(d, 1, Len(d) - 1)) * 10 + (d[Len(d)] - 48)

\* the u64 written by the digits d; one beyond 2147483647 is kept as its digits
U64Value(d) == IF DigitsLeq(d, IntMax) THEN Decimal(d) ELSE d

\* Values that are skipped (the value of a key that names no field): any
\* well-formed JSON value.  The index after the value that starts at i, else 0.
RECURSIVE SkipValue(_, _), SkipMembers(_, _), SkipElements(_, _)
SkipValue(t, i) ==
    IF i < 1 \/ i > Len(t) THEN 0
    ELSE IF t[i] = Quote
      THEN LET c == StrClose(t, i + 1)
           IN  IF c = 0 \/ ~StrOk(t, i + 1, c, FALSE) THEN 0 ELSE c + 1
    ELSE IF t[i] = 123
      THEN LET j == SkipWs(t, i + 1)
           IN  IF Has(t, j, 125) THEN j + 1 ELSE SkipMembers(t, j)
    ELSE IF t[i] = 91
      THEN LET j == SkipWs(t, i + 1)
           IN  IF Has(t, j, 93) THEN j + 1 ELSE SkipElements(t, j)
    ELSE IF t[i] = 45 \/ IsDigit(t[i]) THEN NumberEnd(t, i)
    ELSE IF t[i] = 116 THEN Lit(t, i, <<116, 114, 117, 101>>)
    ELSE IF t[i] = 102 THEN Lit(t, i, <<102, 97, 108, 115, 101>>)
    ELSE IF t[i] = 110 THEN Lit(t, i, <<110, 117, 108, 108>>)
    ELSE 0

\* the members of an object from the key at j on, up to its closing brace
SkipMembers(t, j) ==
    LET k == IF Has(t, j, Quote) THEN SkipValue(t, j) ELSE 0
        c == SkipWs(t, k)
        v == IF Has(t, c, 58) THEN SkipValue(t, SkipWs(t, c + 1)) ELSE 0
        n == SkipWs(t, v)
    IN  IF Has(t, n, 44) THEN SkipMembers(t, SkipWs(t, n + 1))
        ELSE IF Has(t, n, 125) THEN n + 1
        ELSE 0

\* the elements of an array from the one at j on, up to its closing bracket
SkipElements(t, j) ==
    LET n == SkipWs(t, SkipValue(t, j))
    IN  IF Has(t, n, 44) THEN SkipElements(t, SkipWs(t, n + 1))
        ELSE IF Has(t, n, 93) THEN n + 1
        ELSE 0

\* Values that are decoded: [e |-> the index after the value, v |-> the value],
\* e = 0 when the value at i is not of the type.
Fail == [e |-> 0, v |-> -1]

\* the index after the byte c that follows index e and white space, else 0
After(t, e, c) ==
    LET at(n) == IF Has(t, n, c) THEN n + 1 ELSE 0
    IN  at(SkipWs(t, e))

\* the index of the token that follows that byte c, else 0
Tok(t, e, c) == SkipWs(t, After(t, e, c))

\* String
PString(t, i) ==
    LET closed(c) == IF c = 0 \/ ~StrOk(t, i + 1, c, TRUE) THEN Fail
                     ELSE [e |-> c + 1, v |-> Unescape(t, i + 1, c)]
    IN  IF ~Has(t, i, Quote) THEN Fail ELSE closed(StrClose(t, i + 1))

\* u64: digits alone; a sign, a fraction, an exponent or a value beyond
\* u64::MAX makes the number one of another type
PU64(t, i) ==
    LET value(d)  == IF ~DigitsLeq(d, U64Max) THEN Fail
                     ELSE [e |-> i + Len(d), v |-> U64Value(d)]
        digits(a) == IF a = 0 \/ Has(t, a, 46) \/ Has(t, a, 101) \/ Has(t, a, 69)
                       THEN Fail
                     ELSE value(SubSeq(t, i, a - 1))
    IN  digits(IntEnd(t, i))

\* Option<T>: null is None
IsNull(t, i) == Lit(t, i, <<110, 117, 108, 108>>) # 0

None(t, i) == [e |-> i + 4, v |-> -1]

\* the value of type kind at index i
RECURSIVE PValue(_, _, _), PPair(_, _), PElements(_, _, _), PVec(_, _, _)
PValue(kind, t, i) ==
    IF kind = "String" THEN PString(t, i)
    ELSE IF kind = "u64" THEN PU64(t, i)
    ELSE IF kind = "(String, u64)" THEN PPair(t, i)
    ELSE IF kind = "Vec<(String, u64)>" THEN PVec("(String, u64)", t, i)
    ELSE IF kind = "Vec<String>" THEN PVec("String", t, i)
    ELSE IF IsNull(t, i) THEN None(t, i)
    ELSE IF kind = "Option<u64>" THEN PValue("u64", t, i)
    ELSE PValue("Vec<String>", t, i)

\* (String, u64): an array of exactly the two
PPair(t, i) ==
    LET closed(s, n, e) == IF e = 0 THEN Fail ELSE [e |-> e, v |-> <<s.v, n.v>>]
        second(s, n)    == closed(s, n, After(t, n.e, 93))
        first(s)        == second(s, PValue("u64", t, Tok(t, s.e, 44)))
    IN  IF ~Has(t, i, 91) THEN Fail
        ELSE first(PValue("String", t, SkipWs(t, i + 1)))

\* The element of a Vec at j, acc the elements before it: e the index of what
\* follows the element and white space, v the elements so far.
PElement(kind, t, j, acc) ==
    LET push(x) == IF x.e = 0 THEN Fail
                   ELSE [e |-> SkipWs(t, x.e), v |-> Append(acc, x.v)]
    IN  push(PValue(kind, t, j))

\* the elements of a Vec after the element r, up to the closing bracket
PElements(kind, t, r) ==
    IF Has(t, r.e, 44)
      THEN PElements(kind, t, PElement(kind, t, SkipWs(t, r.e + 1), r.v))
    ELSE IF Has(t, r.e, 93) THEN [e |-> r.e + 1, v |-> r.v]
    ELSE Fail

\* Vec<T>
PVec(kind, t, i) ==
    LET from(j) == IF Has(t, j, 93) THEN [e |-> j + 1, v |-> <<>>]
                   ELSE PElements(kind, t, PElement(kind, t, j, <<>>))
    IN  IF ~Has(t, i, 91) THEN Fail ELSE from(SkipWs(t, i + 1))

\* The fields of NcmInfo in the order of the struct, under their names in the
\* text: musicName, musicId, album, artist, bitrate, duration, format, mvId,
\* alias.
FieldNames ==
    << <<109, 117, 115, 105, 99, 78, 97, 109, 101>>,
       <<109, 117, 115, 105, 99, 73, 100>>,
       <<97, 108, 98, 117, 109>>,
       <<97, 114, 116, 105, 115, 116>>,
       <<98, 105, 116, 114, 97, 116, 101>>,
       <<100, 117, 114, 97, 116, 105, 111, 110>>,
       <<102, 111, 114, 109, 97, 116>>,
       <<109, 118, 73, 100>>,
       <<97, 108, 105, 97, 115>> >>

FieldTypes ==
    <<"String", "u64", "String", "Vec<(String, u64)>", "u64", "u64", "String",
      "Option<u64>", "Option<Vec<String>>">>

Required == 1..7

\* the field that name names, 0 when none
FieldOf(name) ==
    IF \E f \in 1..9 : FieldNames[f] = name
      THEN CHOOSE f \in 1..9 : FieldNames[f] = name
    ELSE 0

\* no field seen yet: got[f] = <<seen, value>>
NoFields == [f \in 1..9 |-> <<FALSE, -1>>]

Put(got, f, v) == IF f = 0 THEN got ELSE [got EXCEPT ![f] = <<TRUE, v>>]

\* the key at j with its colon: e the index of the member's value, v the field
\* the key names
PKey(t, j) ==
    LET colon(k) == IF k.e = 0 THEN Fail
                    ELSE [e |-> Tok(t, k.e, 58), v |-> FieldOf(k.v)]
    IN  colon(PString(t, j))

\* The member whose value is at index at, f the field its key names: e the
\* index of what follows the member and white space, v the fields seen.  A key
\* that names a field a second time is an error; the value of any other key is
\* skipped.
PMember(t, at, f, got) ==
    LET put(r) == [e |-> SkipWs(t, r.e), v |-> Put(got, f, r.v)]
    IN  IF at = 0 \/ (f # 0 /\ got[f][1]) THEN Fail
        ELSE IF f = 0 THEN [e |-> SkipWs(t, SkipValue(t, at)), v |-> got]
        ELSE put(PValue(FieldTypes[f], t, at))

\* the member whose key is at j
PMemberAt(t, j, got) ==
    LET value(k) == PMember(t, k.e, k.v, got)
    IN  value(PKey(t, j))

\* the members of the object after the member m, up to the closing brace
RECURSIVE PMembers(_, _)
PMembers(t, m) ==
    IF Has(t, m.e, 44) THEN PMembers(t, PMemberAt(t, SkipWs(t, m.e + 1), m.v))
    ELSE IF Has(t, m.e, 125) THEN [e |-> m.e + 1, v |-> m.v]
    ELSE Fail

\* the struct written as an object, j the index after the brace and white space
PObject(t, j) ==
    IF Has(t, j, 125) THEN [e |-> j + 1, v |-> NoFields]
    ELSE PMembers(t, PMemberAt(t, j, NoFields))

\* The struct written as an array: its nine fields in order, m the field f.
RECURSIVE PFields(_, _, _)
PFields(t, m, f) ==
    IF f < 9 /\ Has(t, m.e, 44)
      THEN PFields(t, PMember(t, SkipWs(t, m.e + 1), f + 1, m.v), f + 1)
    ELSE IF f = 9 /\ Has(t, m.e, 93) THEN [e |-> m.e + 1, v |-> m.v]
    ELSE Fail

\* the struct written as an array, j the index after the bracket and white space
PArray(t, j) == PFields(t, PMember(t, j, 1, NoFields), 1)

InfoOf(got) ==
    [name     |-> got[1][2],
     id       |-> got[2][2],
     album    |-> got[3][2],
     artist   |-> got[4][2],
     bitrate  |-> got[5][2],
     duration |-> got[6][2],
     format   |-> got[7][2],
     mv_id    |-> got[8][2],
     alias    |-> got[9][2]]

ParseInfo(t) ==
    LET finish(r) ==
            IF r.e = 0 \/ SkipWs(t, r.e) # Len(t) + 1 THEN [ok |-> FALSE, rec |-> NoInfo]
            ELSE IF \E f \in Required : ~r.v[f][1] THEN [ok |-> FALSE, rec |-> NoInfo]
            ELSE [ok |-> TRUE, rec |-> InfoOf(r.v)]
        value(i) ==
            finish(IF Has(t, i, 123) THEN PObject(t, SkipWs(t, i + 1))
                   ELSE IF Has(t, i, 91) THEN PArray(t, SkipWs(t, i + 1))
                   ELSE Fail)
    IN  value(SkipWs(t, 1))

-----------------------------------------------------------------------------
(* The extractors.  Each takes the source, the reader position p before    *)
(* the call and the section descriptors, and yields the call's result and  *)
(* the reader position after it.                                           *)

NoRes == [kind |-> "none", err |-> "", bytes |-> <<>>, rec |-> NoInfo]

OkBytes(b) == [kind |-> "ok", err |-> "", bytes |-> b, rec |-> NoInfo]

OkInfo(r) == [kind |-> "ok", err |-> "", bytes |-> <<>>, rec |-> r]

Err(e) == [kind |-> "err", err |-> e, bytes |-> <<>>, rec |-> NoInfo]

\* an out-of-range slice or a violated precondition: the call never returns
Panic == [kind |-> "panic", err |-> "", bytes |-> <<>>, rec |-> NoInfo]

InfoDecodeError == "InfoDecodeError"

KeyMask == 100

InfoMask == 99

KeyPrefix == 17

InfoTag == 22

InfoPrefix == 6

ChunkSize == 32768

\* the read without the seek: from wherever the reader stands
get_bytes_mut(src, p, start, length) ==
    LET bytes == ReadAt(src, p, length)
    IN  [bytes |-> bytes, pos |-> p + Len(bytes)]

\* seek(SeekFrom::Start(start)), then take(length).read_to_end(..)
get_bytes(src, p, start, length) ==
    LET bytes == ReadAt(src, start, length)
    IN  [bytes |-> bytes, pos |-> start + Len(bytes)]

get_key(src, p, k) ==
    LET r              == get_bytes(src, p, k[1], k[2])
        key_buffer     == XorAll(r.bytes, KeyMask)
        decrypt_buffer == decrypt(key_buffer, HEADER_KEY)
    IN  [pos |-> r.pos,
         res |-> IF ~decrypt_buffer.ok THEN Err(decrypt_buffer.err)
                 ELSE IF Len(decrypt_buffer.val) < KeyPrefix THEN Panic
                 ELSE OkBytes(DropFirst(decrypt_buffer.val, KeyPrefix))]

\* the base64 result unwrapped instead of mapped to an error
get_info_mut(src, p, i) ==
    LET r         == get_bytes(src, p, i[1], i[2])
        info_tmp  == XorAll(r.bytes, InfoMask)
        info_key  == B64Decode(DropFirst(info_tmp, InfoTag))
        info_data == decrypt(info_key.val, INFO_KEY)
        info_str  == DropFirst(info_data.val, InfoPrefix)
        parsed    == ParseInfo(info_str)
    IN  [pos |-> r.pos,
         res |-> IF Len(info_tmp) < InfoTag THEN Panic
                 ELSE IF ~info_key.ok THEN Panic
                 ELSE IF ~info_data.ok THEN Err(info_data.err)
                 ELSE IF Len(info_data.val) < InfoPrefix THEN Panic
                 ELSE IF ~IsUtf8(info_str) THEN Err(InfoDecodeError)
                 ELSE IF ~parsed.ok THEN Err(InfoDecodeError)
                 ELSE OkInfo(parsed.rec)]

get_info(src, p, i) ==
    LET r         == get_bytes(src, p, i[1], i[2])
        info_tmp  == XorAll(r.bytes, InfoMask)
        info_key  == B64Decode(DropFirst(info_tmp, InfoTag))
        info_data == decrypt(info_key.val, INFO_KEY)
        info_str  == DropFirst(info_data.val, InfoPrefix)
        parsed    == ParseInfo(info_str)
    IN  [pos |-> r.pos,
         res |-> IF Len(info_tmp) < InfoTag THEN Panic
                 ELSE IF ~info_key.ok THEN Err(InfoDecodeError)
                 ELSE IF ~info_data.ok THEN Err(info_data.err)
                 ELSE IF Len(info_data.val) < InfoPrefix THEN Panic
                 ELSE IF ~IsUtf8(info_str) THEN Err(InfoDecodeError)
                 ELSE IF ~parsed.ok THEN Err(InfoDecodeError)
                 ELSE OkInfo(parsed.rec)]

get_image(src, p, img) ==
    LET r == get_bytes(src, p, img[1], img[2])
    IN  [pos |-> r.pos, res |-> OkBytes(r.bytes)]

\* key_box[(key_box[j] + key_box[(key_box[j] + j) & 0xff]) & 0xff] as u8
KeystreamByte(key_box, j) ==
    At(key_box, (At(key_box, j) + At(key_box, (At(key_box, j) + j) % 256)) % 256) % 256

\* chunks of 0x7fff bytes
KeystreamCipher_chunk(data, key_box) ==
    LET ks == [j \in 0..255 |-> KeystreamByte(key_box, j)]
    IN  Tuple([n \in 1..Len(data) |->
                  LET index == (n - 1) % (ChunkSize - 1)
                      j     == (index + 1) % 256
                  IN  Xor(data[n], ks[j])])

\* the keystream byte added to the item instead of XORed
KeystreamCipher_add(data, key_box) ==
    LET ks == [j \in 0..255 |-> KeystreamByte(key_box, j)]
    IN  Tuple([n \in 1..Len(data) |->
                  LET index == (n - 1) % ChunkSize
                      j     == (index + 1) % 256
                  IN  (data[n] + ks[j]) % 256])

\* data.chunks(0x8000).flat_map(|i| i.iter().enumerate().map(..)): the byte at
\* 1-based index n of data is the byte at index (n - 1) % 0x8000 of its chunk
KeystreamCipher(data, key_box) ==
    LET ks == [j \in 0..255 |-> KeystreamByte(key_box, j)]
    IN  Tuple([n \in 1..Len(data) |->
                  LET index == (n - 1) % ChunkSize
                      j     == (index + 1) % 256
                  IN  Xor(data[n], ks[j])])

\* The payload is read to the end of the source before get_key runs, so the
\* reader is left where get_key leaves it.  build_key_box requires a raw key
\* that is not empty.
get_data(src, p, k, img) ==
    LET start == img[1] + img[2]
        data  == ReadToEnd(src, start)
        kr    == get_key(src, start + Len(data), k)
    IN  [pos |-> kr.pos,
         res |-> IF kr.res.kind # "ok" THEN kr.res
                 ELSE IF Len(kr.res.bytes) = 0 THEN Panic
                 ELSE OkBytes(KeystreamCipher(data, build_key_box(kr.res.bytes)))]

-----------------------------------------------------------------------------
(* Actions                                                                 *)

Extractors == {"key", "info", "image", "data"}

FromReader ==
    /\ state = "init"
    /\ LET r == from_reader(source, endian)
       IN  /\ state' = IF r.err = "" THEN "open" ELSE "failed"
           /\ err' = r.err
           /\ pos' = r.pos
           /\ key' = r.key
           /\ info' = r.info
           /\ image' = r.image
    /\ UNCHANGED <<source, endian, op, res, hist, cipher>>

\* one extraction call on the handle; a panic ends the process
Call(name, r) ==
    /\ state = "open"
    /\ op' = name
    /\ res' = r.res
    /\ pos' = r.pos
    /\ state' = IF r.res.kind = "panic" THEN "panicked" ELSE "open"
    /\ UNCHANGED <<source, endian, err, key, info, image, cipher>>

GetKey == Call("key", get_key(source, pos, key)) /\ UNCHANGED hist

GetInfo == Call("info", get_info(source, pos, info)) /\ UNCHANGED hist

GetImage == Call("image", get_image(source, pos, image)) /\ UNCHANGED hist

GetData == Call("data", get_data(source, pos, key, image)) /\ UNCHANGED hist

Next == FromReader \/ GetKey \/ GetInfo \/ GetImage \/ GetData

\* The same calls with their history recorded: the first result of each
\* extractor, the call before this one, and whether this extractor had been
\* called before.
NoHist == [first |-> [x \in Extractors |-> NoRes], prev |-> "none", again |-> FALSE]

Record(name) ==
    hist' = [first |-> IF hist.first[name].kind = "none"
                         THEN [hist.first EXCEPT ![name] = res']
                       ELSE hist.first,
             prev  |-> op,
             again |-> hist.first[name].kind # "none"]

GetKeyH == Call("key", get_key(source, pos, key)) /\ Record("key")

GetInfoH == Call("info", get_info(source, pos, info)) /\ Record("info")

GetImageH == Call("image", get_image(source, pos, image)) /\ Record("image")

GetDataH == Call("data", get_data(source, pos, key, image)) /\ Record("data")

NextCalls == FromReader \/ GetKeyH \/ GetInfoH \/ GetImageH \/ GetDataH

\* The keystream cipher applied to a payload, and applied again to its output.
NoCipher == [box |-> <<>>, text |-> <<>>, out |-> <<>>, rounds |-> 0]

Apply ==
    /\ cipher.rounds < 2
    /\ cipher' = [cipher EXCEPT !.out = KeystreamCipher(cipher.out, cipher.box),
                                !.rounds = @ + 1]
    /\ UNCHANGED readerVars
    /\ UNCHANGED hist

NextCipher == Apply

-----------------------------------------------------------------------------
(* The sources the reader is opened on.  A container is written the way    *)
(* the extractors read it back: the inverse of each decoding step.         *)

MaxImageLen == 3

MaxAudioLen == 4

MaxWindows == 2

MaxSeed == 1

Endians == {"little", "big"}

\* the 4 bytes of a length field written by a build of byte order e
ToNeBytes(n, e) ==
    LET d == <<(n \div 16777216) % 256, (n \div 65536) % 256, (n \div 256) % 256, n % 256>>
    IN  IF e = "little" THEN Reverse(d) ELSE d

\* the 8 magic bytes ("CTENFDAM" on a little-endian build) and 2 reserved bytes
Header(e) == (IF e = "little" THEN Reverse(Magic) ELSE Magic) \o <<1, 112>>

Gap == Repeat(0, GapSize)

Pad(plain) ==
    LET n == BlockSize - (Len(plain) % BlockSize)
    IN  plain \o Repeat(n, n)

\* the inverse of DecryptBlocks
EncryptBlocks(data, k) ==
    [i \in 1..Len(data) |-> Xor(data[i], k[((i - 1) % BlockSize) + 1])]

Encrypt(plain, k) == EncryptBlocks(Pad(plain), k)

B64Char(v) ==
    IF v < 26 THEN 65 + v
    ELSE IF v < 52 THEN 97 + (v - 26)
    ELSE IF v < 62 THEN 48 + (v - 52)
    ELSE IF v = 62 THEN 43
    ELSE 47

B64Encode(bytes) ==
    LET n    == Len(bytes)
        b(i) == IF i <= n THEN bytes[i] ELSE 0
        ch(k) == LET g == 3 * ((k - 1) \div 4)
                     r == (k - 1) % 4
                 IN  IF r = 0 THEN B64Char(b(g + 1) \div 4)
                     ELSE IF r = 1
                       THEN B64Char((b(g + 1) % 4) * 16 + (b(g + 2) \div 16))
                     ELSE IF r = 2
                       THEN (IF g + 2 > n THEN B64Pad
                             ELSE B64Char((b(g + 2) % 16) * 4 + (b(g + 3) \div 64)))
                     ELSE (IF g + 3 > n THEN B64Pad ELSE B64Char(b(g + 3) % 64))
    IN  [k \in 1..(4 * ((n + 2) \div 3)) |-> ch(k)]

\* "neteasecloudmusic": the 17 bytes get_key discards
KeyTagBytes ==
    <<110, 101, 116, 101, 97, 115, 101, 99, 108, 111, 117, 100, 109, 117, 115, 105, 99>>

\* "163 key(Don't modify):": the 22 bytes get_info skips
InfoTagBytes ==
    <<49, 54, 51, 32, 107, 101, 121, 40, 68, 111, 110, 39, 116, 32, 109, 111, 100,
      105, 102, 121, 41, 58>>

\* "music:": the 6 bytes get_info discards
MusicTagBytes == <<109, 117, 115, 105, 99, 58>>

KeyBlockOfPlain(plain) == XorAll(Encrypt(plain, HEADER_KEY), KeyMask)

KeyBlock(raw_key) == KeyBlockOfPlain(KeyTagBytes \o raw_key)

InfoBlockOfB64(b64) == XorAll(InfoTagBytes \o b64, InfoMask)

InfoBlockOfPlain(plain) == InfoBlockOfB64(B64Encode(Encrypt(plain, INFO_KEY)))

InfoBlock(text) == InfoBlockOfPlain(MusicTagBytes \o text)

RawKeyA == <<49, 49, 56>>

RawKeyB == <<49, 49, 56, 49, 57, 56, 48, 51, 51, 50, 56, 53, 69, 55, 102, 84, 52, 57>>

\* {"musicName":"","musicId":0,"album":"","artist":[],"bitrate":0,"duration":0,"format":"flac"}
TextA ==
    <<123, 34, 109, 117, 115, 105, 99, 78, 97, 109, 101, 34, 58, 34, 34, 44, 34,
      109, 117, 115, 105, 99, 73, 100, 34, 58, 48, 44, 34, 97, 108, 98, 117, 109,
      34, 58, 34, 34, 44, 34, 97, 114, 116, 105, 115, 116, 34, 58, 91, 93, 44, 34,
      98, 105, 116, 114, 97, 116, 101, 34, 58, 48, 44, 34, 100, 117, 114, 97, 116,
      105, 111, 110, 34, 58, 48, 44, 34, 102, 111, 114, 109, 97, 116, 34, 58, 34,
      102, 108, 97, 99, 34, 125>>

\* {"musicName":"a","musicId":7,"album":"b","artist":[["c",3]],"bitrate":320,
\*  "duration":9,"format":"mp3","mvId":0}
TextB ==
    <<123, 34, 109, 117, 115, 105, 99, 78, 97, 109, 101, 34, 58, 34, 97, 34, 44,
      34, 109, 117, 115, 105, 99, 73, 100, 34, 58, 55, 44, 34, 97, 108, 98, 117,
      109, 34, 58, 34, 98, 34, 44, 34, 97, 114, 116, 105, 115, 116, 34, 58, 91, 91,
      34, 99, 34, 44, 51, 93, 93, 44, 34, 98, 105, 116, 114, 97, 116, 101, 34, 58,
      51, 50, 48, 44, 34, 100, 117, 114, 97, 116, 105, 111, 110, 34, 58, 57, 44, 34,
      102, 111, 114, 109, 97, 116, 34, 58, 34, 109, 112, 51, 34, 44, 34, 109, 118,
      73, 100, 34, 58, 48, 125>>

\* as TextA with the two-byte name U+00E9: {"musicName":"...","musicId":12,"album":"x","artist":[],"bitrate":1,"duration":2,"format":"mp3"}
TextC ==
    <<123, 34, 109, 117, 115, 105, 99, 78, 97, 109, 101, 34, 58, 34, 195, 169, 34,
      44, 34, 109, 117, 115, 105, 99, 73, 100, 34, 58, 49, 50, 44, 34, 97, 108, 98,
      117, 109, 34, 58, 34, 120, 34, 44, 34, 97, 114, 116, 105, 115, 116, 34, 58,
      91, 93, 44, 34, 98, 105, 116, 114, 97, 116, 101, 34, 58, 49, 44, 34, 100, 117,
      114, 97, 116, 105, 111, 110, 34, 58, 50, 44, 34, 102, 111, 114, 109, 97, 116,
      34, 58, 34, 109, 112, 51, 34, 125>>

\* the record of a released container: fields in another order, fields the
\* struct does not name, mvId and alias, names outside ASCII (written \x{..} here):
\* {"musicId":1305366556,"musicName":"\x{5BD2}\x{9E26}\x{5C11}\x{5E74}","arti
\* st":[["\x{534E}\x{6668}\x{5B87}",861777]],"albumId":71853061,"album":"\x{5
\* BD2}\x{9E26}\x{5C11}\x{5E74}","albumPicDocId":"109951163520328804","albumP
\* ic":"https://p4.music.126.net/a.jpg","bitrate":923378,"mp3DocId":"4f","dur
\* ation":315146,"mvId":0,"alias":["\x{7535}\x{89C6}\x{5267}\x{300A}\x{6597}\
\* x{7834}\x{82CD}\x{7A79}\x{300B}\x{4E3B}\x{9898}\x{66F2}"],"transNames":[],
\* "format":"flac"}
TextD ==
    <<123, 34, 109, 117, 115, 105, 99, 73, 100, 34, 58, 49, 51, 48, 53, 51,
      54, 54, 53, 53, 54, 44, 34, 109, 117, 115, 105, 99, 78, 97, 109, 101,
      34, 58, 34, 229, 175, 146, 233, 184, 166, 229, 176, 145, 229, 185, 180,
      34, 44, 34, 97, 114, 116, 105, 115, 116, 34, 58, 91, 91, 34, 229, 141,
      142, 230, 153, 168, 229, 174, 135, 34, 44, 56, 54, 49, 55, 55, 55, 93,
      93, 44, 34, 97, 108, 98, 117, 109, 73, 100, 34, 58, 55, 49, 56, 53, 51,
      48, 54, 49, 44, 34, 97, 108, 98, 117, 109, 34, 58, 34, 229, 175, 146,
      233, 184, 166, 229, 176, 145, 229, 185, 180, 34, 44, 34, 97, 108, 98,
      117, 109, 80, 105, 99, 68, 111, 99, 73, 100, 34, 58, 34, 49, 48, 57, 57,
      53, 49, 49, 54, 51, 53, 50, 48, 51, 50, 56, 56, 48, 52, 34, 44, 34, 97,
      108, 98, 117, 109, 80, 105, 99, 34, 58, 34, 104, 116, 116, 112, 115, 58,
      47, 47, 112, 52, 46, 109, 117, 115, 105, 99, 46, 49, 50, 54, 46, 110,
      101, 116, 47, 97, 46, 106, 112, 103, 34, 44, 34, 98, 105, 116, 114, 97,
      116, 101, 34, 58, 57, 50, 51, 51, 55, 56, 44, 34, 109, 112, 51, 68, 111,
      99, 73, 100, 34, 58, 34, 52, 102, 34, 44, 34, 100, 117, 114, 97, 116,
      105, 111, 110, 34, 58, 51, 49, 53, 49, 52, 54, 44, 34, 109, 118, 73,
      100, 34, 58, 48, 44, 34, 97, 108, 105, 97, 115, 34, 58, 91, 34, 231,
      148, 181, 232, 167, 134, 229, 137, 167, 227, 128, 138, 230, 150, 151,
      231, 160, 180, 232, 139, 141, 231, 169, 185, 227, 128, 139, 228, 184,
      187, 233, 162, 152, 230, 155, 178, 34, 93, 44, 34, 116, 114, 97, 110,
      115, 78, 97, 109, 101, 115, 34, 58, 91, 93, 44, 34, 102, 111, 114, 109,
      97, 116, 34, 58, 34, 102, 108, 97, 99, 34, 125>>

\* two artists, white space, fields in another order:
\* { "format" : "mp3", "duration": 9,\n\t"bitrate":320, "artist": [ ["c", 3]
\* , ["d",4] ], "album":"b", "musicId":7, "musicName":"a" }
TextE ==
    <<123, 32, 34, 102, 111, 114, 109, 97, 116, 34, 32, 58, 32, 34, 109, 112,
      51, 34, 44, 32, 34, 100, 117, 114, 97, 116, 105, 111, 110, 34, 58, 32,
      57, 44, 10, 9, 34, 98, 105, 116, 114, 97, 116, 101, 34, 58, 51, 50, 48,
      44, 32, 34, 97, 114, 116, 105, 115, 116, 34, 58, 32, 91, 32, 91, 34, 99,
      34, 44, 32, 51, 93, 32, 44, 32, 91, 34, 100, 34, 44, 52, 93, 32, 93, 44,
      32, 34, 97, 108, 98, 117, 109, 34, 58, 34, 98, 34, 44, 32, 34, 109, 117,
      115, 105, 99, 73, 100, 34, 58, 55, 44, 32, 34, 109, 117, 115, 105, 99,
      78, 97, 109, 101, 34, 58, 34, 97, 34, 32, 125, 32>>

\* escapes in a string and in a key:
\* {"musicName":"a\"b\\\n\u0061\ud83d\ude00","musicId":7,"album":"\/","artist
\* ":[],"bitrate":320,"duration":9,"format":"mp3","\u006dvId":5}
TextF ==
    <<123, 34, 109, 117, 115, 105, 99, 78, 97, 109, 101, 34, 58, 34, 97, 92,
      34, 98, 92, 92, 92, 110, 92, 117, 48, 48, 54, 49, 92, 117, 100, 56, 51,
      100, 92, 117, 100, 101, 48, 48, 34, 44, 34, 109, 117, 115, 105, 99, 73,
      100, 34, 58, 55, 44, 34, 97, 108, 98, 117, 109, 34, 58, 34, 92, 47, 34,
      44, 34, 97, 114, 116, 105, 115, 116, 34, 58, 91, 93, 44, 34, 98, 105,
      116, 114, 97, 116, 101, 34, 58, 51, 50, 48, 44, 34, 100, 117, 114, 97,
      116, 105, 111, 110, 34, 58, 57, 44, 34, 102, 111, 114, 109, 97, 116, 34,
      58, 34, 109, 112, 51, 34, 44, 34, 92, 117, 48, 48, 54, 100, 118, 73,
      100, 34, 58, 53, 125>>

\* mvId and alias null, a skipped value with nested values:
\* {"musicName":"a","musicId":7,"album":"b","artist":[],"bitrate":320,"durati
\* on":9,"format":"mp3","mvId":null,"alias":null,"x":{"a":[1,-2.5e-3,true,nul
\* l,"\ud800",{}],"b":[]}}
TextG ==
    <<123, 34, 109, 117, 115, 105, 99, 78, 97, 109, 101, 34, 58, 34, 97, 34,
      44, 34, 109, 117, 115, 105, 99, 73, 100, 34, 58, 55, 44, 34, 97, 108,
      98, 117, 109, 34, 58, 34, 98, 34, 44, 34, 97, 114, 116, 105, 115, 116,
      34, 58, 91, 93, 44, 34, 98, 105, 116, 114, 97, 116, 101, 34, 58, 51, 50,
      48, 44, 34, 100, 117, 114, 97, 116, 105, 111, 110, 34, 58, 57, 44, 34,
      102, 111, 114, 109, 97, 116, 34, 58, 34, 109, 112, 51, 34, 44, 34, 109,
      118, 73, 100, 34, 58, 110, 117, 108, 108, 44, 34, 97, 108, 105, 97, 115,
      34, 58, 110, 117, 108, 108, 44, 34, 120, 34, 58, 123, 34, 97, 34, 58,
      91, 49, 44, 45, 50, 46, 53, 101, 45, 51, 44, 116, 114, 117, 101, 44,
      110, 117, 108, 108, 44, 34, 92, 117, 100, 56, 48, 48, 34, 44, 123, 125,
      93, 44, 34, 98, 34, 58, 91, 93, 125, 125>>

\* the struct written as an array:
\* ["a",7,"b",[["c",3]],320,9,"mp3",0,["x","y"]]
TextH ==
    <<91, 34, 97, 34, 44, 55, 44, 34, 98, 34, 44, 91, 91, 34, 99, 34, 44, 51,
      93, 93, 44, 51, 50, 48, 44, 57, 44, 34, 109, 112, 51, 34, 44, 48, 44,
      91, 34, 120, 34, 44, 34, 121, 34, 93, 93>>

\* an id beyond 32 bits:
\* {"musicName":"a","musicId":4294967296,"album":"b","artist":[],"bitrate":32
\* 0,"duration":9,"format":"mp3"}
TextI ==
    <<123, 34, 109, 117, 115, 105, 99, 78, 97, 109, 101, 34, 58, 34, 97, 34,
      44, 34, 109, 117, 115, 105, 99, 73, 100, 34, 58, 52, 50, 57, 52, 57, 54,
      55, 50, 57, 54, 44, 34, 97, 108, 98, 117, 109, 34, 58, 34, 98, 34, 44,
      34, 97, 114, 116, 105, 115, 116, 34, 58, 91, 93, 44, 34, 98, 105, 116,
      114, 97, 116, 101, 34, 58, 51, 50, 48, 44, 34, 100, 117, 114, 97, 116,
      105, 111, 110, 34, 58, 57, 44, 34, 102, 111, 114, 109, 97, 116, 34, 58,
      34, 109, 112, 51, 34, 125>>

\* rejected: a field named twice:
\* {"musicName":"a","musicId":7,"album":"b","artist":[],"bitrate":320,"durati
\* on":9,"format":"mp3","musicName":"z"}
TextR1 ==
    <<123, 34, 109, 117, 115, 105, 99, 78, 97, 109, 101, 34, 58, 34, 97, 34,
      44, 34, 109, 117, 115, 105, 99, 73, 100, 34, 58, 55, 44, 34, 97, 108,
      98, 117, 109, 34, 58, 34, 98, 34, 44, 34, 97, 114, 116, 105, 115, 116,
      34, 58, 91, 93, 44, 34, 98, 105, 116, 114, 97, 116, 101, 34, 58, 51, 50,
      48, 44, 34, 100, 117, 114, 97, 116, 105, 111, 110, 34, 58, 57, 44, 34,
      102, 111, 114, 109, 97, 116, 34, 58, 34, 109, 112, 51, 34, 44, 34, 109,
      117, 115, 105, 99, 78, 97, 109, 101, 34, 58, 34, 122, 34, 125>>

\* rejected: half a surrogate pair in a decoded string:
\* {"musicName":"\ud83d","musicId":7,"album":"b","artist":[],"bitrate":320,"d
\* uration":9,"format":"mp3"}
TextR2 ==
    <<123, 34, 109, 117, 115, 105, 99, 78, 97, 109, 101, 34, 58, 34, 92, 117,
      100, 56, 51, 100, 34, 44, 34, 109, 117, 115, 105, 99, 73, 100, 34, 58,
      55, 44, 34, 97, 108, 98, 117, 109, 34, 58, 34, 98, 34, 44, 34, 97, 114,
      116, 105, 115, 116, 34, 58, 91, 93, 44, 34, 98, 105, 116, 114, 97, 116,
      101, 34, 58, 51, 50, 48, 44, 34, 100, 117, 114, 97, 116, 105, 111, 110,
      34, 58, 57, 44, 34, 102, 111, 114, 109, 97, 116, 34, 58, 34, 109, 112,
      51, 34, 125>>

\* rejected: an id that is no u64:
\* {"musicName":"a","musicId":7.0,"album":"b","artist":[],"bitrate":320,"dura
\* tion":9,"format":"mp3"}
TextR3 ==
    <<123, 34, 109, 117, 115, 105, 99, 78, 97, 109, 101, 34, 58, 34, 97, 34,
      44, 34, 109, 117, 115, 105, 99, 73, 100, 34, 58, 55, 46, 48, 44, 34, 97,
      108, 98, 117, 109, 34, 58, 34, 98, 34, 44, 34, 97, 114, 116, 105, 115,
      116, 34, 58, 91, 93, 44, 34, 98, 105, 116, 114, 97, 116, 101, 34, 58,
      51, 50, 48, 44, 34, 100, 117, 114, 97, 116, 105, 111, 110, 34, 58, 57,
      44, 34, 102, 111, 114, 109, 97, 116, 34, 58, 34, 109, 112, 51, 34, 125>>

\* rejected: an artist of three elements:
\* {"musicName":"a","musicId":7,"album":"b","artist":[["c",3,4]],"bitrate":32
\* 0,"duration":9,"format":"mp3"}
TextR4 ==
    <<123, 34, 109, 117, 115, 105, 99, 78, 97, 109, 101, 34, 58, 34, 97, 34,
      44, 34, 109, 117, 115, 105, 99, 73, 100, 34, 58, 55, 44, 34, 97, 108,
      98, 117, 109, 34, 58, 34, 98, 34, 44, 34, 97, 114, 116, 105, 115, 116,
      34, 58, 91, 91, 34, 99, 34, 44, 51, 44, 52, 93, 93, 44, 34, 98, 105,
      116, 114, 97, 116, 101, 34, 58, 51, 50, 48, 44, 34, 100, 117, 114, 97,
      116, 105, 111, 110, 34, 58, 57, 44, 34, 102, 111, 114, 109, 97, 116, 34,
      58, 34, 109, 112, 51, 34, 125>>

\* rejected: characters after the value:
\* {"musicName":"a","musicId":7,"album":"b","artist":[],"bitrate":320,"durati
\* on":9,"format":"mp3"}}
TextR5 ==
    <<123, 34, 109, 117, 115, 105, 99, 78, 97, 109, 101, 34, 58, 34, 97, 34,
      44, 34, 109, 117, 115, 105, 99, 73, 100, 34, 58, 55, 44, 34, 97, 108,
      98, 117, 109, 34, 58, 34, 98, 34, 44, 34, 97, 114, 116, 105, 115, 116,
      34, 58, 91, 93, 44, 34, 98, 105, 116, 114, 97, 116, 101, 34, 58, 51, 50,
      48, 44, 34, 100, 117, 114, 97, 116, 105, 111, 110, 34, 58, 57, 44, 34,
      102, 111, 114, 109, 97, 116, 34, 58, 34, 109, 112, 51, 34, 125, 125>>

\* rejected: a comma before the closing brace:
\* {"musicName":"a","musicId":7,"album":"b","artist":[],"bitrate":320,"durati
\* on":9,"format":"mp3",}
TextR6 ==
    <<123, 34, 109, 117, 115, 105, 99, 78, 97, 109, 101, 34, 58, 34, 97, 34,
      44, 34, 109, 117, 115, 105, 99, 73, 100, 34, 58, 55, 44, 34, 97, 108,
      98, 117, 109, 34, 58, 34, 98, 34, 44, 34, 97, 114, 116, 105, 115, 116,
      34, 58, 91, 93, 44, 34, 98, 105, 116, 114, 97, 116, 101, 34, 58, 51, 50,
      48, 44, 34, 100, 117, 114, 97, 116, 105, 111, 110, 34, 58, 57, 44, 34,
      102, 111, 114, 109, 97, 116, 34, 58, 34, 109, 112, 51, 34, 44, 125>>

\* key blocks: two that unwrap, and the malformed ones
KeyBlocks ==
    { KeyBlock(RawKeyA), KeyBlock(RawKeyB),
      KeyBlock(<<>>),                               \* plaintext of exactly 17 bytes
      KeyBlockOfPlain(<<110, 101, 116>>),           \* plaintext of 3 bytes
      KeyBlockOfPlain(<<>>),                        \* plaintext of 0 bytes
      XorAll(EncryptBlocks(Repeat(200, BlockSize), HEADER_KEY), KeyMask), \* bad padding
      <<1, 2, 3, 4, 5>>,                            \* not a whole block
      <<>> }

\* metadata blocks: those that decode, and the malformed ones
InfoBlocks ==
    { InfoBlock(TextA), InfoBlock(TextB), InfoBlock(TextC),
      InfoBlock(TextD), InfoBlock(TextE), InfoBlock(TextF),
      InfoBlock(TextG), InfoBlock(TextH), InfoBlock(TextI),
      InfoBlock(TextR1), InfoBlock(TextR2), InfoBlock(TextR3),
      InfoBlock(TextR4), InfoBlock(TextR5), InfoBlock(TextR6),
      InfoBlock(<<123, 125>>),                      \* {} : fields missing
      InfoBlock(<<>>),                              \* plaintext of exactly 6 bytes
      InfoBlock(<<123, 34, 255, 254, 34, 125>>),    \* not UTF-8
      InfoBlock(<<237, 160, 128>>),                 \* a surrogate: not UTF-8
      InfoBlockOfPlain(<<109, 117, 115>>),          \* plaintext of 3 bytes
      InfoBlockOfPlain(<<>>),                       \* plaintext of 0 bytes
      InfoBlockOfB64(B64Encode(<<1, 2, 3>>)),       \* not a whole block
      InfoBlockOfB64(B64Encode(EncryptBlocks(Repeat(0, BlockSize), INFO_KEY))), \* bad padding
      InfoBlockOfB64(<<33, 33, 33, 33>>),           \* not the base64 alphabet
      InfoBlockOfB64(<<81, 85, 74>>),               \* base64 without its padding
      InfoBlockOfB64(<<81, 82, 61, 61>>),           \* base64 with trailing bits
      InfoBlockOfB64(<<>>),                         \* the 22-byte tag alone
      XorAll(SubSeq(InfoTagBytes, 1, 5), InfoMask), \* shorter than the tag
      <<>> }

\* n bytes that depend on their place and on seed
Pattern(seed, n) ==
    Tuple([i \in 1..n |-> (i * 7 + (i \div 256) * 3 + seed * 101) % 256])

Container(e, reserved, kblk, iblk, img, audio) ==
    SubSeq(Header(e), 1, 8) \o reserved
      \o ToNeBytes(Len(kblk), e) \o kblk
      \o ToNeBytes(Len(iblk), e) \o iblk
      \o Gap
      \o ToNeBytes(Len(img), e) \o img
      \o audio

Default(e) ==
    Container(e, <<1, 112>>, KeyBlock(RawKeyA), InfoBlock(TextA),
              Pattern(0, MaxImageLen), Pattern(1, MaxAudioLen))

SourcesOf(e) ==
    \* every key block, every metadata block
    { Container(e, <<1, 112>>, k, InfoBlock(TextA), Pattern(0, 1), Pattern(1, 2))
        : k \in KeyBlocks }
    \cup
    { Container(e, <<1, 112>>, KeyBlock(RawKeyA), i, Pattern(0, 1), Pattern(1, 2))
        : i \in InfoBlocks }
    \cup
    \* every image length with every payload length
    { Container(e, <<0, 0>>, KeyBlock(RawKeyB), InfoBlock(TextB),
                Pattern(0, m), Pattern(1, a))
        : m \in 0..MaxImageLen, a \in 0..MaxAudioLen }
    \cup
    \* every truncation of a container
    { SubSeq(Default(e), 1, n) : n \in 0..Len(Default(e)) }
    \cup
    \* the smallest containers: no key block, and no metadata block or one whose
    \* ciphertext is not a whole block
    { Container(e, <<1, 112>>, <<>>, i, <<>>, <<>>)
        : i \in {<<>>, InfoBlockOfB64(B64Encode(<<1, 2, 3>>))} }
    \cup
    \* a stored image length of m with k bytes behind it
    UNION { { LET whole == Container(e, <<1, 112>>, <<>>, <<>>, Pattern(0, m), <<>>)
              IN  SubSeq(whole, 1, Len(whole) - m + k)
                : k \in 0..m }
            : m \in 0..MaxImageLen }
    \cup
    \* one byte of the header changed
    { [Default(e) EXCEPT ![i] = (@ + 1) % 256] : i \in 1..HeaderSize }

Sources == UNION { SourcesOf(e) : e \in Endians }

\* payload lengths around the window boundaries
DataLengths ==
    {0, 1, 255, 256, 257}
    \cup { w * ChunkSize + d : w \in 1..MaxWindows, d \in {-1, 0, 1} }

DataSources ==
    { Container("little", <<1, 112>>, KeyBlock(rk), InfoBlock(TextA), Pattern(0, 2),
                Pattern(seed, n))
        : rk \in {RawKeyA, RawKeyB}, seed \in 0..MaxSeed, n \in DataLengths }

\* key boxes: two that the key schedule builds, the identity, and a table that
\* is no permutation
Boxes ==
    { build_key_box(RawKeyA), build_key_box(RawKeyB), IdentityBox,
      Tuple([i \in 1..256 |-> (i * i) % 256]) }

Payloads == { Pattern(seed, n) : seed \in 0..MaxSeed, n \in DataLengths }

-----------------------------------------------------------------------------
(* Specifications                                                          *)

InitWith(srcs, ends) ==
    /\ source \in srcs
    /\ endian \in ends
    /\ pos = 0
    /\ state = "init"
    /\ err = ""
    /\ key = NoSection
    /\ info = NoSection
    /\ image = NoSection
    /\ op = "none"
    /\ res = NoRes
    /\ hist = NoHist
    /\ cipher = NoCipher

\* every source, on a build of either byte order
Init == InitWith(Sources, Endians)

Spec == Init /\ [][Next]_vars

\* the calls in every order, with their history
InitCalls == InitWith(SourcesOf("little"), {"little"})

SpecCalls == InitCalls /\ [][NextCalls]_vars

\* containers whose payload spans several windows
InitData == InitWith(DataSources, {"little"})

NextData == FromReader \/ GetKey \/ GetData

SpecData == InitData /\ [][NextData]_vars

\* the cipher as a function of a key box and a payload
InitCipher ==
    /\ source = <<>>
    /\ endian = "little"
    /\ pos = 0
    /\ state = "none"
    /\ err = ""
    /\ key = NoSection
    /\ info = NoSection
    /\ image = NoSection
    /\ op = "none"
    /\ res = NoRes
    /\ hist = NoHist
    /\ \E b \in Boxes, t \in Payloads :
          cipher = [box |-> b, text |-> t, out |-> t, rounds |-> 0]

SpecCipher == InitCipher /\ [][NextCipher]_vars

-----------------------------------------------------------------------------
(* The claims                                                              *)

Returned == state \in {"open", "failed", "panicked"}

\* the first 8 bytes of the source read as a native-endian integer
SourceMagic == FromNeBytes(SubSeq(source, 1, 8), endian)

HeaderAccepted == Len(source) >= 10 /\ SourceMagic = Magic

\* the 32-bit value stored in the 4 bytes before offset p
StoredLength(p) == get_length(SubSeq(source, p - 3, p), endian)

\* C1: from_reader fails with InvalidFileType for every source shorter than
\* 10 bytes and for every source of at least 10 bytes whose first 8 bytes,
\* read as a native-endian 64-bit integer, differ from the magic; no handle
\* is returned.
C1_InvalidFileType ==
    (Returned /\ (Len(source) < 10 \/ SourceMagic # Magic))
        => (state = "failed" /\ err = "InvalidFileType")

C1_Witness ==
    /\ state = "failed"
    /\ err = "InvalidFileType"
    /\ Len(source) >= 10
    /\ SourceMagic # Magic

\* C7: once the header is accepted, a short read of a length field fails with
\* the error of that field and of no other: the key length at offset 10, the
\* metadata length after the key block, the image length after the metadata
\* block and the 9-byte gap; also when a stored length moves the position past
\* the end of the source.
C7_LengthErrors ==
    (Returned /\ HeaderAccepted) =>
        LET key_field   == ReadAt(source, 10, 4)
            info_at     == 14 + get_length(key_field, endian)
            info_field  == ReadAt(source, info_at, 4)
            image_at    == info_at + 4 + get_length(info_field, endian) + 9
            image_field == ReadAt(source, image_at, 4)
        IN  IF Len(key_field) < 4
              THEN state = "failed" /\ err = "InvalidKeyLength"
            ELSE IF Len(info_field) < 4
              THEN state = "failed" /\ err = "InvalidInfoLength"
            ELSE IF Len(image_field) < 4
              THEN state = "failed" /\ err = "InvalidImageLength"
            ELSE state # "failed" /\ err = ""

C7_Witness ==
    /\ HeaderAccepted
    /\ state = "failed"
    /\ err = "InvalidInfoLength"
    /\ Len(source) >= 14
    /\ 14 + StoredLength(14) > Len(source)

\* C10: for every accepted source key.start = 14, info.start = key.start +
\* key.length + 4, image.start = info.start + info.length + 9 + 4, each length
\* is the 32-bit value stored in the 4 bytes before the section start, and the
\* reader stands at image.start when from_reader returns.
C10_Layout ==
    state = "open" =>
        /\ key[1] = 14
        /\ key[2] = StoredLength(key[1])
        /\ info[1] = key[1] + key[2] + 4
        /\ info[2] = StoredLength(info[1])
        /\ image[1] = info[1] + info[2] + 9 + 4
        /\ image[2] = StoredLength(image[1])
        /\ (op = "none" => pos = image[1])

C10_Witness ==
    /\ state = "open"
    /\ op = "none"
    /\ key[2] > 0
    /\ info[2] > 0
    /\ image[2] > 0
    /\ pos = image[1]

\* C4: get_image returns exactly image.length bytes, the source bytes at
\* image.start .. image.start + image.length - 1, also when the stored
\* image.length exceeds what remains of the source: it never returns fewer
\* bytes as a success.
C4_ImageExact ==
    (op = "image" /\ res.kind = "ok") =>
        /\ Len(res.bytes) = image[2]
        /\ \A i \in 1..image[2] : res.bytes[i] = source[image[1] + i]

\* C9: get_key and get_info each end by returning a value or an error, never
\* by a panic, also for a metadata block shorter than 22 bytes and for
\* plaintexts shorter than the prefixes that are discarded.
C9_NoPanic == op \in {"key", "info"} => res.kind \in {"ok", "err"}

\* the metadata block after XOR with 0x63, its base64 text decoded, and the
\* decryption of that
InfoXored == XorAll(ReadAt(source, info[1], info[2]), 99)

InfoDecoded == B64Decode(DropFirst(InfoXored, 22))

InfoPlain == decrypt(InfoDecoded.val, INFO_KEY)

\* C6: when the decryption of the base64-decoded metadata fails, get_info
\* fails with InfoDecodeError and with no other error kind.
C6_DecryptErrorKind ==
    (op = "info" /\ Len(InfoXored) >= 22 /\ InfoDecoded.ok /\ ~InfoPlain.ok)
        => (res.kind = "err" /\ res.err = "InfoDecodeError")

\* C5: whenever the metadata block after XOR with 0x63 and removal of its
\* first 22 bytes is not valid base64, or the decrypted plaintext after removal
\* of its first 6 bytes is not valid UTF-8, get_info returns InfoDecodeError
\* and does not panic.
BadBase64 == ~InfoDecoded.ok

BadUtf8 == InfoDecoded.ok /\ InfoPlain.ok /\ ~IsUtf8(DropFirst(InfoPlain.val, 6))

C5_DecodeErrors ==
    (op = "info" /\ (BadBase64 \/ BadUtf8))
        => (state = "open" /\ res.kind = "err" /\ res.err = "InfoDecodeError")

C5_Witness ==
    /\ op = "info"
    /\ BadUtf8
    /\ res.kind = "err"
    /\ res.err = "InfoDecodeError"

\* C3: on one handle every call of get_key, get_info or get_image returns
\* what the first call of that extractor returned, whatever calls ran before
\* or between them.
C3_Deterministic ==
    (state = "open" /\ op \in {"key", "info", "image"}) => res = hist.first[op]

C3_Witness ==
    /\ state = "open"
    /\ op = "key"
    /\ res.kind = "ok"
    /\ hist.again
    /\ hist.prev = "data"
    /\ hist.first["image"].kind = "ok"
    /\ hist.first["info"].kind = "ok"

\* C2: get_data returns the source bytes from image.start + image.length to
\* the end, the byte at payload position p XORed with the keystream byte of
\* j = (p + 1) mod 256, p counted from the start of the whole payload, for
\* every payload length.
C2_Keystream ==
    (op = "data" /\ res.kind = "ok") =>
        LET start   == image[1] + image[2]
            n       == Len(source) - start
            key_box == build_key_box(get_key(source, 0, key).res.bytes)
            stream  == [j \in 0..255 |->
                          At(key_box, (At(key_box, j)
                                       + At(key_box, (At(key_box, j) + j) % 256)) % 256)]
        IN  /\ Len(res.bytes) = n
            /\ \A p \in 0..(n - 1) :
                  res.bytes[p + 1] = Xor(source[start + p + 1], stream[(p + 1) % 256])

C2_Witness ==
    /\ op = "data"
    /\ res.kind = "ok"
    /\ Len(res.bytes) = 2 * ChunkSize + 1

\* C8: applying the keystream cipher twice with the same key box returns the
\* original payload, for every payload length.
C8_SelfInverse == cipher.rounds = 2 => cipher.out = cipher.text

C8_Witness ==
    /\ cipher.rounds = 2
    /\ Len(cipher.text) > ChunkSize
    /\ cipher.box # IdentityBox
    /\ cipher.out = cipher.text

=============================================================================
